---------------------------- MODULE Spec2Model ----------------------------
(***************************************************************************)
(* Model of the process-entry trampoline _start of libtock                 *)
(* (userland/libtock/crt1.c).                                              *)
(*                                                                         *)
(* _start is a naked, noreturn function: the compiler emits no prologue    *)
(* and no epilogue, so its text is the assembly block                      *)
(*                                                                         *)
(*       mov r9, sp                                                        *)
(*       bl  main                                                          *)
(*    1: bl  yield                                                         *)
(*       b   1b                                                            *)
(*                                                                         *)
(* followed by the code of the C statements main(); yield();.  A state of  *)
(* the model is the machine state of one process: the program counter,     *)
(* the registers the block and its callees touch, the return address the   *)
(* active callee holds, the process memory, and a history of what the      *)
(* trampoline did.  main and yield are external: main may work, yield      *)
(* from inside, return any value or run forever; the kernel may or may     *)
(* not resume a yield.                                                     *)
(***************************************************************************)
EXTENDS Naturals, Sequences, FiniteSets

VARIABLES pc, regs, ret, mem, hist, twin

vars == <<pc, regs, ret, mem, hist, twin>>

(***************************************************************************)
(* Bounds of the model.  The history counters and the recorded trace       *)
(* saturate at these bounds; the control flow never depends on them.       *)
(***************************************************************************)
MaxCount == 3
MaxTrace == 5
(* The count of yields made inside the application saturates here. *)
MaxAppYields == 2

(* Values a 32-bit register or memory word takes in the model. *)
Words == {0, 4096}
(* Initial stack pointers the kernel may supply. *)
StackTops == {16384, 20480}
(* Process memory words the application may write. *)
Cells == {0}
(* Code addresses the link register may hold: the kernel's caller address  *)
(* and the two return addresses inside the block.                          *)
LinkVals == {"kernel", "bl_yield", "b_1b"}

(***************************************************************************)
(* The text of _start in address order: the four instructions of the asm   *)
(* block, then the code of the C statements main(); yield(); and the end   *)
(* of the function, where a naked function has no return instruction.      *)
(***************************************************************************)
AsmNext(p) ==
    CASE p = "mov"      -> "bl_main"
      [] p = "bl_main"  -> "bl_yield"
      [] p = "bl_yield" -> "b_1b"
      [] p = "b_1b"     -> "c_main"
      [] p = "c_main"   -> "c_yield"
      [] OTHER          -> "end"

(* The code that follows the asm block inside _start: the C statements     *)
(* main(); yield(); and the end of the function.                           *)
AfterAsm == {"c_main", "c_yield", "end"}

(* The entry of lto_asm_references_dummy_function, a function of its own   *)
(* that nothing in _start calls or branches to.                            *)
LtoDummy == "lto_asm_references_dummy_function"

(* The first instruction the kernel jumps to. *)
Entry == "mov"

(* bl main *)
BlMainTarget_yield == "yield"
BlMainTarget == "main"

(* 1: bl yield *)
BlYieldTarget == "yield"

(* b 1b: the nearest label 1 before the branch is the bl yield. *)
BranchTarget_fall == "c_main"
BranchTarget_main == "bl_main"
BranchTarget_self == "b_1b"
BranchTarget_mov == "mov"
BranchTarget == "bl_yield"

(***************************************************************************)
(* The history: saturating counters, the last step taken and the trace of  *)
(* the trampoline's observable actions.                                    *)
(***************************************************************************)
Bump(n) == IF n < MaxCount THEN n + 1 ELSE n

Record(h, e) ==
    IF Len(h.trace) < MaxTrace THEN Append(h.trace, e) ELSE h.trace

InitHist ==
    [last |-> "start", r9Writes |-> 0, mainCalls |-> 0, mainReturns |-> 0,
     yieldCalls |-> 0, resumes |-> 0, appYields |-> 0, trace |-> <<>>]

Called(h, t, now) ==
    [h EXCEPT !.last = now,
              !.mainCalls  = IF t = "main" THEN Bump(@) ELSE @,
              !.yieldCalls = IF t = "yield" THEN Bump(@) ELSE @,
              !.trace = Record(h, [ev |-> t, val |-> 0])]

(***************************************************************************)
(* The instructions, as functions of the machine state s.                  *)
(***************************************************************************)
(* mov r9, sp *)
MovR9Sp_none(s) ==
    [s EXCEPT !.pc = AsmNext(s.pc), !.hist.last = "mov"]
MovR9Sp_r0(s) ==
    [s EXCEPT !.pc = AsmNext(s.pc),
              !.regs.r9 = s.regs.r0,
              !.hist.last = "mov",
              !.hist.r9Writes = Bump(@),
              !.hist.trace = Record(s.hist, [ev |-> "r9", val |-> s.regs.r0])]
MovR9Sp_push(s) ==
    [s EXCEPT !.pc = AsmNext(s.pc),
              !.regs.r9 = s.regs.sp,
              !.regs.sp = s.regs.sp - 4,
              !.hist.last = "mov",
              !.hist.r9Writes = Bump(@),
              !.hist.trace = Record(s.hist, [ev |-> "r9", val |-> s.regs.sp])]
MovR9Sp(s) ==
    [s EXCEPT !.pc = AsmNext(s.pc),
              !.regs.r9 = s.regs.sp,
              !.hist.last = "mov",
              !.hist.r9Writes = Bump(@),
              !.hist.trace = Record(s.hist, [ev |-> "r9", val |-> s.regs.sp])]

(* The link a bl leaves in lr: the address of the next instruction. *)
BlLink_b(s) == s.regs.lr
BlLink(s) == AsmNext(s.pc)

(* bl t: lr := return address, pc := t.  The callee keeps the return       *)
(* address it was entered with (ret) and returns to it.                    *)
Bl_nowait(s, t) ==
    [s EXCEPT !.pc = AsmNext(s.pc),
              !.regs.lr = BlLink(s),
              !.hist = Called(s.hist, t, s.pc)]
Bl(s, t) ==
    [s EXCEPT !.pc = t,
              !.regs.lr = BlLink(s),
              !.ret = BlLink(s),
              !.hist = Called(s.hist, t, s.pc)]

(* b t *)
Branch(s, t) == [s EXCEPT !.pc = t, !.hist.last = "b"]

(***************************************************************************)
(* The environment.  A choice e fixes what main or yield does next: the    *)
(* values it leaves in the caller-saved registers r0-r2 and lr, and the    *)
(* memory word the application writes.  Callees preserve sp and r9.        *)
(***************************************************************************)
Env(kind) ==
    [kind : {kind}, r0 : Words, r1 : Words, r2 : Words, lr : LinkVals,
     cell : Cells, val : Words]

Clobber(s, e) ==
    [s.regs EXCEPT !.r0 = e.r0, !.r1 = e.r1, !.r2 = e.r2, !.lr = e.lr]

(* main computes: scratch registers and one memory word change. *)
MainWorks(s, e) ==
    [s EXCEPT !.regs = Clobber(s, e),
              !.mem[e.cell] = e.val,
              !.hist.last = "main_work"]

(* main calls yield itself and is suspended inside the application. *)
MainYields(s, e) ==
    [s EXCEPT !.pc = "app_yield",
              !.hist.last = "app_yield",
              !.hist.appYields = IF @ < MaxAppYields THEN @ + 1 ELSE @]

(* the kernel resumes a yield made by the application. *)
AppResumes(s, e) ==
    [s EXCEPT !.pc = "main",
              !.regs = Clobber(s, e),
              !.hist.last = "app_resume"]

(* main returns e.r0 to the address it was called with. *)
MainReturns(s, e) ==
    [s EXCEPT !.pc = s.ret,
              !.regs = Clobber(s, e),
              !.hist.last = "main_ret",
              !.hist.mainReturns = Bump(@)]

(* the kernel resumes the trampoline's yield, which returns to its caller. *)
YieldReturns(s, e) ==
    [s EXCEPT !.pc = s.ret,
              !.regs = Clobber(s, e),
              !.hist.last = "resume",
              !.hist.resumes = Bump(@)]

(***************************************************************************)
(* The state of the process when the kernel enters _start with the         *)
(* handoff triple (r0, r1, r2), stack pointer sp and whatever r9 holds.    *)
(* lr holds the kernel's address; no callee is active.  twin is a second   *)
(* process, which only SpecPair below runs; under Spec it stays as it was  *)
(* started.                                                                *)
(***************************************************************************)
Handoffs == [r0 : Words, r1 : Words, r2 : Words]

StartState(h, sp0, r9junk) ==
    [pc   |-> Entry,
     regs |-> [r0 |-> h.r0, r1 |-> h.r1, r2 |-> h.r2,
               sp |-> sp0, r9 |-> r9junk, lr |-> "kernel"],
     ret  |-> "none",
     mem  |-> [c \in Cells |-> 0],
     hist |-> InitHist]

Cur == [pc |-> pc, regs |-> regs, ret |-> ret, mem |-> mem, hist |-> hist]

Is(s) ==
    /\ pc = s.pc
    /\ regs = s.regs
    /\ ret = s.ret
    /\ mem = s.mem
    /\ hist = s.hist

Become(s) ==
    /\ pc' = s.pc
    /\ regs' = s.regs
    /\ ret' = s.ret
    /\ mem' = s.mem
    /\ hist' = s.hist

Init ==
    \E h \in Handoffs, sp0 \in StackTops, j \in Words :
        /\ Is(StartState(h, sp0, j))
        /\ twin = StartState(h, sp0, j)

(***************************************************************************)
(* The steps of one process.                                               *)
(***************************************************************************)
ExecMov ==
    /\ pc = "mov"
    /\ Become(MovR9Sp(Cur))
    /\ UNCHANGED twin

ExecBlMain ==
    /\ pc = "bl_main"
    /\ Become(Bl(Cur, BlMainTarget))
    /\ UNCHANGED twin

ExecBlYield ==
    /\ pc = "bl_yield"
    /\ Become(Bl(Cur, BlYieldTarget))
    /\ UNCHANGED twin

ExecBranch ==
    /\ pc = "b_1b"
    /\ Become(Branch(Cur, BranchTarget))
    /\ UNCHANGED twin

MainWork ==
    /\ pc = "main"
    /\ \E e \in Env("work") : Become(MainWorks(Cur, e))
    /\ UNCHANGED twin

MainYield ==
    /\ pc = "main"
    /\ \E e \in Env("yield") : Become(MainYields(Cur, e))
    /\ UNCHANGED twin

AppResume ==
    /\ pc = "app_yield"
    /\ \E e \in Env("resume") : Become(AppResumes(Cur, e))
    /\ UNCHANGED twin

MainReturn ==
    /\ pc = "main"
    /\ \E e \in Env("return") : Become(MainReturns(Cur, e))
    /\ UNCHANGED twin

YieldResume ==
    /\ pc = "yield"
    /\ \E e \in Env("resume") : Become(YieldReturns(Cur, e))
    /\ UNCHANGED twin

(* The trampoline's own instructions. *)
Tramp == ExecMov \/ ExecBlMain \/ ExecBlYield \/ ExecBranch

Next ==
    \/ ExecMov
    \/ ExecBlMain
    \/ ExecBlYield
    \/ ExecBranch
    \/ MainWork
    \/ MainYield
    \/ AppResume
    \/ MainReturn
    \/ YieldResume

Spec == Init /\ [][Next]_vars

(* The processor executes the trampoline's instructions. *)
SpecCpu == Spec /\ WF_vars(Tramp)

(* ... and the kernel eventually resumes every yield of the trampoline. *)
SpecFair == Spec /\ WF_vars(Tramp) /\ WF_vars(YieldResume)

(* The control state of the state machine of the trampoline. *)
Phase(p) ==
    CASE p \in {"mov", "bl_main"}            -> "Initializing"
      [] p \in {"main", "app_yield"}         -> "Running"
      [] p \in {"bl_yield", "yield", "b_1b"} -> "Idle"
      [] OTHER                               -> "Gone"


(***************************************************************************)
(* Two processes started with the same stack pointer and register junk but *)
(* any two handoff triples, run in lockstep against the same behaviour of  *)
(* main, yield and the kernel.  Step(s, e) is the one step the process in  *)
(* state s takes when the environment's next choice is e.                  *)
(***************************************************************************)
Kinds == {"work", "yield", "return", "resume"}

Step(s, e) ==
    CASE s.pc = "mov"                              -> MovR9Sp(s)
      [] s.pc = "bl_main"                          -> Bl(s, BlMainTarget)
      [] s.pc = "bl_yield"                         -> Bl(s, BlYieldTarget)
      [] s.pc = "b_1b"                             -> Branch(s, BranchTarget)
      [] s.pc = "main" /\ e.kind = "work"          -> MainWorks(s, e)
      [] s.pc = "main" /\ e.kind = "yield"         -> MainYields(s, e)
      [] s.pc = "main" /\ e.kind = "return"        -> MainReturns(s, e)
      [] s.pc = "app_yield" /\ e.kind = "resume"   -> AppResumes(s, e)
      [] s.pc = "yield" /\ e.kind = "resume"       -> YieldReturns(s, e)
      [] OTHER                                     -> s

InitPair ==
    \E h \in Handoffs, h2 \in Handoffs, sp0 \in StackTops, j \in Words :
        /\ Is(StartState(h, sp0, j))
        /\ twin = StartState(h2, sp0, j)

NextPair ==
    \E k \in Kinds : \E e \in Env(k) :
        /\ Become(Step(Cur, e))
        /\ twin' = Step(twin, e)

SpecPair == InitPair /\ [][NextPair]_vars

(***************************************************************************)
(*                              The claims                                 *)
(***************************************************************************)

(* C1: whatever the handoff triple and whatever main and yield do, control *)
(* never goes back to the kernel's caller address: _start never returns.   *)
C1_NeverReturns == pc # "kernel"

(* C1 witness: main has returned, the loop has been resumed at least once, *)
(* and the callee even left the kernel's address in lr.                    *)
C1_Witness ==
    /\ hist.mainReturns >= 1
    /\ hist.last = "resume"
    /\ regs.lr = "kernel"

(* C2: whenever main has been entered, r9 has already been written, and    *)
(* that write is the first thing the trampoline did.                       *)
C2_R9BeforeMain ==
    (hist.mainCalls > 0 \/ Phase(pc) = "Running") =>
        /\ hist.r9Writes >= 1
        /\ Len(hist.trace) >= 2
        /\ hist.trace[1].ev = "r9"
        /\ hist.trace[2].ev = "main"

(* C2 witness: main has just been entered. *)
C2_Witness == pc = "main" /\ hist.last = "bl_main"

(* C3: main is called at most once; once main has returned the process is  *)
(* in the yield loop and never in main again; and a return of main leads   *)
(* to a yield call by the trampoline.                                      *)
C3_YieldAfterReturn ==
    /\ [](hist.mainCalls <= 1)
    /\ [](hist.mainReturns > 0 => Phase(pc) = "Idle")
    /\ [][hist.mainReturns > 0 => hist'.mainCalls = hist.mainCalls]_vars
    /\ (hist.mainReturns > 0 ~> hist.yieldCalls > 0)

(* C3 witness: main returned once and a yield call followed. *)
C3_Witness ==
    /\ hist.mainReturns = 1
    /\ hist.mainCalls = 1
    /\ hist.yieldCalls >= 1

(* C4: in the loop a resumed yield is followed by the branch back and the  *)
(* next yield call, nothing but yield calls is observed after the first    *)
(* one, and if the kernel keeps resuming, yield is called again and again. *)
C4_YieldForever ==
    /\ [][(pc = "b_1b" => pc' = "bl_yield")
          /\ (pc = "bl_yield" => pc' = "yield" /\ hist'.last = "bl_yield")]_vars
    /\ [](\A i \in 1..Len(hist.trace) : \A j \in i..Len(hist.trace) :
            hist.trace[i].ev = "yield" => hist.trace[j].ev = "yield")
    /\ [](Phase(pc) = "Idle" => ([]<>(pc = "yield") /\ []<>(pc = "b_1b")))

(* C4 witness: a yield call issued after an earlier one was resumed. *)
C4_Witness ==
    /\ pc = "yield"
    /\ hist.yieldCalls >= 2
    /\ hist.last = "bl_yield"

(* C5: as long as main has not returned the trampoline is not idle and has *)
(* called yield itself zero times.                                         *)
C5_NoYieldBeforeReturn ==
    (hist.yieldCalls > 0 \/ Phase(pc) = "Idle") => hist.mainReturns > 0

(* C5 witness: main runs on and on, yielding from inside the application,  *)
(* and the trampoline has not called yield.                                *)
C5_Witness ==
    /\ pc = "app_yield"
    /\ hist.appYields >= 2
    /\ hist.mainReturns = 0
    /\ hist.yieldCalls = 0

(* C6: no step leaves Idle. *)
C6_IdleAbsorbing == [][Phase(pc) = "Idle" => Phase(pc') = "Idle"]_vars

(* C6 witness: the loop has gone round: idle, after a resumed yield. *)
C6_Witness ==
    /\ Phase(pc) = "Idle"
    /\ hist.yieldCalls >= 2
    /\ hist.last = "b"

(* C7: the process starts in Initializing, which is never entered again;   *)
(* the phase changes only Initializing -> Running and Running -> Idle, and *)
(* the latter only in the step in which main returns.                      *)
C7_OneDirection ==
    /\ Phase(pc) = "Initializing"
    /\ [][/\ Phase(pc') = "Initializing" => Phase(pc) = "Initializing"
          /\ Phase(pc) = "Initializing" =>
                Phase(pc') \in {"Initializing", "Running"}
          /\ Phase(pc) = "Running" => Phase(pc') \in {"Running", "Idle"}
          /\ (Phase(pc) = "Running" /\ Phase(pc') = "Idle") =>
                (pc = "main" /\ hist'.last = "main_ret"
                 /\ hist.mainReturns = 0 /\ hist'.mainReturns = 1)
          /\ Phase(pc) = "Idle" => Phase(pc') = "Idle"]_vars

(* C7 witness: the step Running -> Idle has just been taken. *)
C7_Witness == Phase(pc) = "Idle" /\ hist.last = "main_ret"

(* C8: r9 is written once: the count of writes is 1 as soon as the mov has *)
(* been executed and never grows, and no later instruction of the          *)
(* trampoline changes r9.                                                  *)
C8_R9WrittenOnce ==
    /\ [](hist.r9Writes <= 1)
    /\ [](pc # "mov" => hist.r9Writes = 1)
    /\ [][(Tramp /\ hist.r9Writes >= 1) =>
            (regs'.r9 = regs.r9 /\ hist'.r9Writes = hist.r9Writes)]_vars

(* C8 witness: the loop has gone round twice with a single write of r9. *)
C8_Witness ==
    /\ hist.r9Writes = 1
    /\ hist.yieldCalls >= 2
    /\ hist.last = "b"

(* C9 as stated: an instruction of the trampoline changes no register but  *)
(* r9 (not sp, not lr, not r0-r2) and no memory.                           *)
C9_OnlyR9 ==
    [][Tramp => (/\ regs' = [regs EXCEPT !.r9 = regs'.r9]
                 /\ mem' = mem)]_vars

(* C9 amended: an instruction of the trampoline changes no register but r9 *)
(* (only the mov does) and lr (only a bl does, to the address after it);   *)
(* sp, r0-r2 and memory are unchanged.                                     *)
C9_OnlyR9AndLink ==
    [][Tramp => (/\ regs' = [regs EXCEPT !.r9 = regs'.r9, !.lr = regs'.lr]
                 /\ mem' = mem
                 /\ (regs'.r9 # regs.r9 => pc = "mov")
                 /\ (regs'.lr # regs.lr =>
                        (pc \in {"bl_main", "bl_yield"}
                         /\ regs'.lr = AsmNext(pc))))]_vars

(* C9 witness: a bl of the loop has just written lr, with the application  *)
(* having changed memory and scratch registers before.                     *)
C9_Witness ==
    /\ hist.last = "bl_yield"
    /\ hist.yieldCalls >= 2
    /\ regs.lr = "b_1b"
    /\ mem[0] # 0

(* C10: two processes that differ only in the handoff triple do the same   *)
(* things in the same order: same trace of r9 write (and value), call of   *)
(* main and yield calls, same place in the code, same r9.                  *)
C10_HandoffUnused ==
    /\ hist.trace = twin.hist.trace
    /\ pc = twin.pc
    /\ regs.r9 = twin.regs.r9
    /\ hist.yieldCalls = twin.hist.yieldCalls
    /\ hist.mainCalls = twin.hist.mainCalls

(* C10 witness: main has been entered by two processes whose handoff       *)
(* triples differ in every component.                                      *)
C10_Witness ==
    /\ pc = "main"
    /\ hist.last = "bl_main"
    /\ Len(hist.trace) = 2
    /\ regs.r0 # twin.regs.r0
    /\ regs.r1 # twin.regs.r1
    /\ regs.r2 # twin.regs.r2

(* C11: on entry to main, r9 and sp both hold the stack pointer the kernel *)
(* supplied at entry to _start (under Spec, twin is the process as it was  *)
(* started), and the recorded r9 write carries that value.                 *)
C11_R9IsEntrySp ==
    (pc = "main" /\ hist.last = "bl_main") =>
        /\ regs.r9 = twin.regs.sp
        /\ regs.sp = twin.regs.sp
        /\ regs.r9 = regs.sp
        /\ hist.trace[1] = [ev |-> "r9", val |-> twin.regs.sp]

(* C11 witness: main is entered with a stale r9 value replaced by sp.      *)
C11_Witness ==
    /\ pc = "main"
    /\ hist.last = "bl_main"
    /\ twin.regs.r9 # twin.regs.sp
    /\ regs.r9 = 20480
    /\ twin.pc = "mov"

(* C12: the trampoline reaches the call of main unconditionally: with     *)
(* the processor executing its instructions, main is eventually entered;   *)
(* until main has been called the process is in Initializing, where an     *)
(* instruction of the trampoline is always enabled and nothing has         *)
(* yielded; and no yield call comes before the call of main.               *)
C12_ReachesMain ==
    /\ <>(Phase(pc) = "Running")
    /\ [](hist.mainCalls = 0 =>
            /\ Phase(pc) = "Initializing"
            /\ ENABLED Tramp
            /\ hist.yieldCalls = 0
            /\ hist.appYields = 0)
    /\ [](hist.yieldCalls > 0 => hist.mainCalls > 0)
    /\ [](\A i \in 1..Len(hist.trace) : hist.trace[i].ev = "yield" =>
            \E j \in 1..(i - 1) : hist.trace[j].ev = "main")

(* C12 witness: main has been entered after exactly the two instructions   *)
(* mov and bl, with no yield of any kind before.                           *)
C12_Witness ==
    /\ Phase(pc) = "Running"
    /\ hist.last = "bl_main"
    /\ hist.trace = <<[ev |-> "r9", val |-> regs.sp], [ev |-> "main", val |-> 0]>>
    /\ hist.yieldCalls = 0
    /\ hist.appYields = 0

(* C13: yield calls and resumptions alternate.  A yield of the trampoline  *)
(* is outstanding exactly while pc is in yield: then one more call than    *)
(* resumptions has been counted (below the counters' bound), otherwise as  *)
(* many.  While it is outstanding no instruction of the trampoline is      *)
(* enabled, and the only step is the kernel's resumption, which continues  *)
(* at the instruction after the call; the next yield call is issued only   *)
(* from there (or from main's return, for the first one).                  *)
C13_YieldResumeAlternate ==
    /\ [](hist.yieldCalls < MaxCount =>
            hist.yieldCalls = hist.resumes + (IF pc = "yield" THEN 1 ELSE 0))
    /\ [](hist.resumes <= hist.yieldCalls)
    /\ [](pc = "yield" => (~ENABLED Tramp /\ hist.last = "bl_yield"))
    /\ [][pc = "yield" =>
            (/\ pc' = "b_1b"
             /\ hist'.last = "resume"
             /\ hist'.yieldCalls = hist.yieldCalls
             /\ hist'.mainCalls = hist.mainCalls)]_vars
    /\ [][pc' = "yield" =>
            (/\ pc = "bl_yield"
             /\ hist.last \in {"main_ret", "b"})]_vars
    /\ [][(pc = "b_1b" \/ pc' = "b_1b") =>
            (/\ hist.last = "resume" \/ hist'.last = "resume"
             /\ pc' \in {"b_1b", "bl_yield"})]_vars

(* C13 witness: a second yield is outstanding after the first was resumed. *)
C13_Witness ==
    /\ pc = "yield"
    /\ hist.yieldCalls = 2
    /\ hist.resumes = 1
    /\ ~ENABLED Tramp

(* C14: control never falls past the asm block into the C statements      *)
(* main(); yield(); nor enters lto_asm_references_dummy_function; the      *)
(* backward branch goes to the bl yield only; so main is called only by    *)
(* the bl main of the block (once) and yield only by the bl yield at       *)
(* label 1.                                                                *)
C14_DeadReferences ==
    /\ [](pc \notin AfterAsm)
    /\ [](pc # LtoDummy /\ ret # LtoDummy)
    /\ [][pc = "b_1b" => pc' = "bl_yield"]_vars
    /\ [](hist.mainCalls <= 1)
    /\ [][hist'.mainCalls # hist.mainCalls => pc = "bl_main"]_vars
    /\ [][hist'.yieldCalls # hist.yieldCalls => pc = "bl_yield"]_vars
    /\ [](pc = "main" => ret = "bl_yield")
    /\ [](pc = "yield" => ret = "b_1b")

(* C14 witness: the backward branch has just been taken for the third      *)
(* time, with main called once.                                            *)
C14_Witness ==
    /\ pc = "bl_yield"
    /\ hist.last = "b"
    /\ hist.resumes = MaxCount
    /\ hist.mainCalls = 1

=============================================================================
